---- MODULE Spec2Model ----
(***************************************************************************)
(* Model of textconverter.py: the Visitor that walks a pdfminer layout     *)
(* tree, the ChapterElement that accumulates and merges BlockElements, the *)
(* BlockElement / InlineElement renderers and the two converters           *)
(* (RstConverter, SplitRstConverter).                                      *)
(*                                                                         *)
(* Conventions.  A Python str is a sequence of one-character strings.      *)
(* Lengths and font sizes (floats in the source) are integers counted in   *)
(* hundredths.  Python None is 0 for object references (pages, boxes,      *)
(* lines) and "" for an unset style.  Objects compared by identity in the  *)
(* source (boxes, lines, blocks) carry an integer identity.                *)
(***************************************************************************)
EXTENDS Integers, Sequences, FiniteSets, TLC

VARIABLES
    pc,            \* position in the conversion: walk, merge_blocks, ...
    conv,          \* which converter is closing: "", "rst" or "split"
    ctx,           \* position of the traversal in the layout tree
    raised,        \* the exception that ended the run, "" when none
    current_page,  \* Visitor.current_page (page id, 0 = None)
    current_box,   \* Visitor.current_box (box identity, 0 = None)
    current_line,  \* Visitor.current_line (line identity, 0 = None)
    boxes,         \* the LTTextBoxHorizontal objects seen: y0 and first line x0
    lines,         \* the LTTextLineHorizontal objects seen: x0 and child count
    page_blocks,   \* ChapterElement.page_blocks
    blocks,        \* ChapterElement.blocks
    nblocks,       \* number of BlockElement objects created so far
    font_warning_cache, \* module-level font_warning_cache (its keys)
    warnings,      \* the log.warning records emitted, in order
    unmapped,      \* history: the characters of unmapped font seen, with their line
    ridx,          \* index of the next block the close loop renders
    texts,         \* ChapterElement.render: the list texts
    outfp,         \* the output segment write_text writes to (0 = the initial stream)
    segments,      \* the output files SplitRstConverter.close has opened, in order
    part_counter,  \* SplitRstConverter.close: part_counter
    chap_counter,  \* SplitRstConverter.close: chap_counter
    written,       \* the write_text calls made: segment, block identity, text
    exported       \* number of imagewriter.export_image calls made (none without an imagewriter)

vars == << pc, conv, ctx, raised, current_page, current_box, current_line,
           boxes, lines, page_blocks, blocks, nblocks, font_warning_cache,
           warnings, unmapped, ridx, texts, outfp, segments, part_counter,
           chap_counter, written, exported >>

-----------------------------------------------------------------------------
(* Strings *)

Str1(c) == << c >>

Lower == { "a","b","c","d","e","f","g","h","i","j","k","l","m",
           "n","o","p","q","r","s","t","u","v","w","x","y","z" }
Upper == { "A","B","C","D","E","F","G","H","I","J","K","L","M",
           "N","O","P","Q","R","S","T","U","V","W","X","Y","Z" }
Digit == { "0","1","2","3","4","5","6","7","8","9" }

\* regular expression classes \w, \s and \d
IsWord(c) == c \in Lower \cup Upper \cup Digit \cup { "_" }
IsSpace(c) == c \in { " ", "\n", "\t", "\r" }
IsDigit(c) == c \in Digit

RECURSIVE Join(_)
\* ''.join(list of str)
Join(ss) == IF ss = << >> THEN << >> ELSE Head(ss) \o Join(Tail(ss))

RECURSIVE JoinWith(_, _)
\* sep.join(list of str)
JoinWith(sep, ss) ==
    IF ss = << >> THEN << >>
    ELSE IF Len(ss) = 1 THEN ss[1]
    ELSE ss[1] \o sep \o JoinWith(sep, Tail(ss))

Drop(s, n) == SubSeq(s, n + 1, Len(s))

RECURSIVE Repeat(_, _)
\* c * n
Repeat(c, n) == IF n = 0 THEN << >> ELSE << c >> \o Repeat(c, n - 1)

RECURSIVE LStrip(_, _)
\* str.lstrip(chars)
LStrip(s, cs) ==
    IF s # << >> /\ Head(s) \in cs THEN LStrip(Tail(s), cs) ELSE s

RECURSIVE RStrip(_, _)
\* str.rstrip(chars)
RStrip(s, cs) ==
    IF s # << >> /\ s[Len(s)] \in cs THEN RStrip(SubSeq(s, 1, Len(s) - 1), cs) ELSE s

Whitespace == { " ", "\n", "\t", "\r" }

RECURSIVE ReplaceAll(_, _, _)
\* str.replace(old, new), old non-empty
ReplaceAll(s, old, new) ==
    IF Len(s) < Len(old) THEN s
    ELSE IF SubSeq(s, 1, Len(old)) = old
         THEN new \o ReplaceAll(Drop(s, Len(old)), old, new)
         ELSE << Head(s) >> \o ReplaceAll(Tail(s), old, new)

RECURSIVE RejoinHyphen(_)
\* re.sub(r'(\w)- (\w)', r'\1-\2', text)
RejoinHyphen(s) ==
    IF s = << >> THEN << >>
    ELSE IF Len(s) >= 4 /\ IsWord(s[1]) /\ s[2] = "-" /\ s[3] = " " /\ IsWord(s[4])
         THEN << s[1], "-", s[4] >> \o RejoinHyphen(Drop(s, 4))
         ELSE << Head(s) >> \o RejoinHyphen(Tail(s))

RECURSIVE SpanLen(_, _)
\* length of the longest prefix of s whose characters all lie in cs
SpanLen(s, cs) ==
    IF s # << >> /\ Head(s) \in cs THEN 1 + SpanLen(Tail(s), cs) ELSE 0

RECURSIVE CollapseSpaces(_)
\* re.sub(r' (\s+)', ' ', text)
CollapseSpaces(s) ==
    IF s = << >> THEN << >>
    ELSE IF Head(s) = " " /\ SpanLen(Tail(s), Whitespace) >= 1
         THEN << " " >> \o CollapseSpaces(Drop(s, 1 + SpanLen(Tail(s), Whitespace)))
         ELSE << Head(s) >> \o CollapseSpaces(Tail(s))

RECURSIVE JoinLines(_)
\* re.sub(r'([^ ])\n([^ ])', r'\1 \2', text)
JoinLines(s) ==
    IF s = << >> THEN << >>
    ELSE IF Len(s) >= 3 /\ s[1] # " " /\ s[2] = "\n" /\ s[3] # " "
         THEN << s[1], " ", s[3] >> \o JoinLines(Drop(s, 3))
         ELSE << Head(s) >> \o JoinLines(Tail(s))

\* trim_linebreak(text)
trim_linebreak(text) ==
    ReplaceAll(JoinLines(ReplaceAll(text, << "-", "\n" >>, << >>)), << "\n" >>, << >>)

-----------------------------------------------------------------------------
(* InlineElement *)

\* InlineElement(parent, style): a run with an empty text_stack
NewInline(style) == [ style |-> style, text_stack |-> << >> ]

\* InlineElement.push_text
InlinePushText(i, text) == [ i EXCEPT !.text_stack = Append(@, text) ]

\* InlineElement.raw_text
raw_text(i) ==
    LET text == RejoinHyphen(Join(i.text_stack))
    IN  IF i.style # "code" THEN CollapseSpaces(text) ELSE text

FigPrefix == << "F", "i", "g", "u", "r", "e", " " >>
\* the grave accent character (U+0060), which a TLA+ string cannot hold
Backtick == "U+0060"

NumrefPrefix == << ":", "n", "u", "m", "r", "e", "f", ":", Backtick,
                   "f", "i", "g", "u", "r", "e", "-" >>

\* length of the match of r'Figure (\d+)\.(\d+)\b' at the start of s, 0 if none
FigMatchLen(s) ==
    IF Len(s) < 10 \/ SubSeq(s, 1, 7) # FigPrefix THEN 0
    ELSE LET n1 == SpanLen(Drop(s, 7), Digit)
         IN  IF n1 = 0 \/ Len(s) < 8 + n1 \/ s[8 + n1] # "." THEN 0
             ELSE LET n2  == SpanLen(Drop(s, 8 + n1), Digit)
                      end == 8 + n1 + n2
                  IN  IF n2 = 0 THEN 0
                      ELSE IF Len(s) > end /\ IsWord(s[end + 1]) THEN 0
                      ELSE end

RECURSIVE ReplaceFigures(_, _)
\* re.sub(r'\bFigure (\d+)\.(\d+)\b', r':numref:[U+0060]figure-\1-\2[U+0060]', text);
\* afterWord: the character before s is a word character
ReplaceFigures(s, afterWord) ==
    IF s = << >> THEN << >>
    ELSE IF ~afterWord /\ FigMatchLen(s) > 0
         THEN LET n1 == SpanLen(Drop(s, 7), Digit)
                  m  == FigMatchLen(s)
              IN  NumrefPrefix \o SubSeq(s, 8, 7 + n1) \o << "-" >>
                      \o SubSeq(s, 9 + n1, m) \o << Backtick >>
                      \o ReplaceFigures(Drop(s, m), TRUE)
         ELSE << Head(s) >> \o ReplaceFigures(Tail(s), IsWord(Head(s)))

\* InlineElement.replace_inlines
replace_inlines(text) == ReplaceFigures(text, FALSE)

\* re.match(r'^https?://', text)
IsUrl(text) ==
    \/ Len(text) >= 7 /\ SubSeq(text, 1, 7) = << "h", "t", "t", "p", ":", "/", "/" >>
    \/ Len(text) >= 8 /\ SubSeq(text, 1, 8) = << "h", "t", "t", "p", "s", ":", "/", "/" >>

\* the styles InlineElement.render knows; any other one logs 'Unknow font style'
KnownInlineStyles ==
    { "normal", "lineblock", "list-item", "strong", "em", "code", "header",
      "figure", "figure-comment", "toc", "part", "h1", "h2", "h3" }

\* InlineElement.render(in_code)
InlineRender(i, in_code) ==
    LET raw   == raw_text(i)
        pre_s == SubSeq(raw, 1, SpanLen(raw, Whitespace))
        rest  == Drop(raw, Len(pre_s))
        text  == RStrip(rest, Whitespace)
        post_s == Drop(rest, Len(text))
        styled ==
            CASE i.style \in { "normal", "lineblock", "list-item" } -> replace_inlines(text)
              [] i.style = "strong" -> << "*", "*" >> \o text \o << "*", "*" >>
              [] i.style = "em" -> << "*" >> \o text \o << "*" >>
              [] i.style = "code" /\ ~in_code ->
                    IF IsUrl(text) THEN text
                    ELSE << Backtick, Backtick >> \o text \o << Backtick, Backtick >>
              [] OTHER -> text
    IN  IF in_code THEN pre_s \o styled \o post_s ELSE styled

\* the 'Unknow font style' warnings InlineElement.render logs for these runs
RenderWarnings(inls) ==
    LET bad == SelectSeq(inls, LAMBDA i : i.style \notin KnownInlineStyles)
    IN  [ k \in 1..Len(bad) |-> << "Unknow font style", bad[k].style >> ]

-----------------------------------------------------------------------------
(* BlockElement *)

\* BlockElement(parent, item, page=page); id is the object's identity, style is
\* _style, and src (history) lists the identities of the blocks merged into it
NewBlock(id, item, page) ==
    [ id |-> id, item |-> item, page |-> page, style |-> "", inlines |-> << >>,
      src |-> << id >> ]

\* the header threshold of BlockElement.is_header, in hundredths
HeaderY0 == 61000

\* BlockElement.is_header
is_header(b) ==
    IF b.style = "header" THEN TRUE
    ELSE IF b.item = 0 THEN FALSE
    ELSE boxes[b.item].y0 > HeaderY0

InlineStyles(b) == { b.inlines[k].style : k \in 1..Len(b.inlines) }

\* BlockElement.is_all_style
is_all_style(b, styles) == InlineStyles(b) \subseteq styles

\* BlockElement.is_style
is_style(b, require, accepts) ==
    /\ require \in InlineStyles(b)
    /\ InlineStyles(b) \subseteq ({ require } \cup accepts)

\* the first style of the tuple ss, in order, that satisfies P, "" if none
FirstStyle(ss, P(_)) ==
    LET hits == { k \in 1..Len(ss) : P(ss[k]) }
    IN  IF hits = { } THEN ""
        ELSE ss[CHOOSE k \in hits : \A j \in hits : k <= j]

\* BlockElement.style (getter)
Style(b) ==
    IF b.style # "" THEN b.style
    ELSE IF is_header(b) THEN "header"
    ELSE IF is_style(b, "code", { "strong" }) THEN "code"
    ELSE LET mixed == FirstStyle(<< "figure", "toc", "lineblock" >>,
                         LAMBDA s : is_style(b, s, { "header", "code" }))
             pure  == FirstStyle(<< "code", "part", "h1", "h2", "h3",
                                    "figure-comment", "list-item" >>,
                         LAMBDA s : is_all_style(b, { s }))
         IN  IF mixed # "" THEN mixed
             ELSE IF pure # "" THEN pure
             ELSE "paragraph"

\* BlockElement.set_inline_style
BlockSetInlineStyle(b, style) ==
    IF b.inlines = << >> \/ b.inlines[Len(b.inlines)].style # style
    THEN [ b EXCEPT !.inlines = Append(@, NewInline(style)) ]
    ELSE b

\* BlockElement.push_text
BlockPushText(b, text) ==
    LET b1 == IF b.inlines = << >>
              THEN [ b EXCEPT !.inlines = << NewInline("normal") >> ]
              ELSE b
    IN  [ b1 EXCEPT !.inlines[Len(b1.inlines)] = InlinePushText(@, text) ]

\* BlockElement.merge
BlockMerge(b, other) ==
    [ b EXCEPT !.inlines = @ \o other.inlines, !.src = @ \o other.src ]

-----------------------------------------------------------------------------
(* BlockElement: rendering.  A renderer yields the text it returns, the     *)
(* block's inline runs as the call leaves them, the warnings it logs and    *)
(* the exception it raises ("" when it returns).                            *)

Rendered(text, inls, warns, exc) ==
    [ text |-> text, inlines |-> inls, warns |-> warns, exc |-> exc ]

RECURSIVE SplitLines(_, _)
\* str.splitlines(True) for the line break "\n"; cur is the line being read
SplitLines(s, cur) ==
    IF s = << >> THEN (IF cur = << >> THEN << >> ELSE << cur >>)
    ELSE IF Head(s) = "\n" THEN << Append(cur, "\n") >> \o SplitLines(Tail(s), << >>)
    ELSE SplitLines(Tail(s), Append(cur, Head(s)))

\* textwrap.indent(text, prefix): lines of whitespace only get no prefix
Indent(text, prefix) ==
    LET ls == SplitLines(text, << >>)
    IN  Join([ k \in 1..Len(ls) |->
                 IF SpanLen(ls[k], Whitespace) = Len(ls[k]) THEN ls[k]
                 ELSE prefix \o ls[k] ])

Margin == << " ", " ", " " >>

\* str.strip()
Strip(s) == RStrip(LStrip(s, Whitespace), Whitespace)

UpperSeq == << "A","B","C","D","E","F","G","H","I","J","K","L","M",
               "N","O","P","Q","R","S","T","U","V","W","X","Y","Z" >>
LowerSeq == << "a","b","c","d","e","f","g","h","i","j","k","l","m",
               "n","o","p","q","r","s","t","u","v","w","x","y","z" >>

\* str.lower()
ToLower(s) ==
    [ k \in 1..Len(s) |->
        IF s[k] \in Upper
        THEN LowerSeq[CHOOSE j \in 1..26 : UpperSeq[j] = s[k]]
        ELSE s[k] ]

\* BlockElement.render_code
render_code(b) ==
    LET header == IF \E k \in 1..Len(b.inlines) : b.inlines[k].style = "strong"
                  THEN << ".", ".", " ", "p", "a", "r", "s", "e", "d", "-", "l", "i", "t", "e", "r", "a", "l", ":", ":", "\n", "\n" >>
                  ELSE << ".", ".", " ", "c", "o", "d", "e", "-", "b", "l", "o", "c", "k", ":", ":", "\n", "\n" >>
        text   == Join([ k \in 1..Len(b.inlines) |-> InlineRender(b.inlines[k], TRUE) ])
        suite  == RStrip(Indent(text, Margin), Whitespace)
    IN  Rendered(header \o suite, b.inlines, RenderWarnings(b.inlines), "")

\* the positions of ":" in text
Colons(text) == { k \in 1..Len(text) : text[k] = ":" }

\* BlockElement.render_figure; text.split(':', 2) must give exactly two fields
render_figure(b) ==
    LET text == Join([ k \in 1..Len(b.inlines) |-> raw_text(b.inlines[k]) ])
    IN  IF Cardinality(Colons(text)) # 1
        THEN Rendered(<< >>, b.inlines, << >>, "ValueError")
        ELSE LET c        == CHOOSE k \in Colons(text) : TRUE
                 figname0 == Strip(SubSeq(text, 1, c - 1))
                 figtitle == Strip(Drop(text, c))
                 figname  == ReplaceAll(ReplaceAll(ToLower(figname0), << " " >>, << "-" >>),
                                        << "." >>, << "-" >>)
                 header   == << ".", ".", " ", "f", "i", "g", "u", "r", "e", ":", ":", " ", "i", "m", "a", "g", "e", "s", "/" >> \o figname \o << ".", "*", "\n", " ", " ", " ", ":", "n", "a", "m", "e", ":", " " >> \o figname \o << "\n", "\n" >>
                 suite    == RStrip(Indent(figtitle, Margin), Whitespace)
             IN  Rendered(header \o suite, b.inlines, << >>, "")

RECURSIVE GlossaryStack(_, _)
\* render_glossary, first loop: the list of [term, desc, ...] lists; exc is
\* "IndexError" when a description comes before any term (stack[-1] of an empty list)
GlossaryStack(inls, stack) ==
    IF inls = << >> THEN [ exc |-> "", stack |-> stack ]
    ELSE LET i == Head(inls)
         IN  IF i.style = "term"
             THEN GlossaryStack(Tail(inls), Append(stack, << RStrip(raw_text(i), { ":" }) >>))
             ELSE IF stack = << >> THEN [ exc |-> "IndexError", stack |-> << >> ]
             ELSE GlossaryStack(Tail(inls),
                      [ stack EXCEPT ![Len(stack)] =
                          Append(@, LStrip(InlineRender(i, FALSE), { ":", " " })) ])

\* BlockElement.render_glossary
render_glossary(b) ==
    LET g     == GlossaryStack(b.inlines, << >>)
        descs == SelectSeq(b.inlines, LAMBDA i : i.style # "term")
    IN  IF g.exc # ""
        THEN Rendered(<< >>, b.inlines, RenderWarnings(<< descs[1] >>), g.exc)
        ELSE LET entry(e) ==
                     LET ds   == SelectSeq(Tail(e), LAMBDA t : Strip(t) # << >>)
                         desc == trim_linebreak(JoinWith(<< " " >>, ds))
                     IN  Head(e) \o << "\n", " ", " ", " " >> \o desc
                 body == JoinWith(<< "\n", "\n" >>,
                                  [ k \in 1..Len(g.stack) |-> entry(g.stack[k]) ])
             IN  Rendered(<< ".", ".", " ", "g", "l", "o", "s", "s", "a", "r", "y", ":", ":", "\n", "\n" >> \o Indent(body, Margin), b.inlines,
                          RenderWarnings(descs), "")

RECURSIVE StackFold(_, _, _)
\* render_text, first loop: inls are the block's runs, stack the positions of the
\* runs on the stack, k the position of the run being read.  A run holding a single
\* ' ' between two runs of one style is pushed, with the later run, INTO the earlier
\* run (i2.push_text), which changes the block's run
StackFold(inls, stack, k) ==
    IF k > Len(inls) THEN [ inlines |-> inls, stack |-> stack ]
    ELSE LET n == Len(stack)
         IN  IF /\ n >= 2
                /\ raw_text(inls[stack[n]]) = << " " >>
                /\ inls[stack[n - 1]].style = inls[k].style
             THEN StackFold(
                      [ inls EXCEPT ![stack[n - 1]] =
                          InlinePushText(InlinePushText(@, raw_text(inls[stack[n]])),
                                         raw_text(inls[k])) ],
                      SubSeq(stack, 1, n - 1), k + 1)
             ELSE StackFold(inls, Append(stack, k), k + 1)

\* BlockElement.render_text
render_text(b) ==
    IF is_header(b) THEN Rendered(<< >>, b.inlines, << >>, "")
    ELSE LET f     == StackFold(b.inlines, << >>, 1)
             runs  == [ k \in 1..Len(f.stack) |-> f.inlines[f.stack[k]] ]
             parts == SelectSeq([ k \in 1..Len(runs) |-> InlineRender(runs[k], FALSE) ],
                                LAMBDA t : t # << >>)
         IN  Rendered(trim_linebreak(JoinWith(<< " " >>, parts)), f.inlines,
                      RenderWarnings(runs), "")

\* c * len(text)
Border(c, text) == Repeat(c, Len(text))

\* BlockElement.render, the match statement: the text a block of this style gets
Decorated(style, text) ==
    LET nl == << "\n" >>
    IN  CASE style = "figure-comment" -> << ".", ".", " ", "f", "i", "g", "u", "r", "e", "-", "c", "o", "m", "m", "e", "n", "t", ":", " " >> \o text
          [] style = "toc" -> << ".", ".", " ", "t", "o", "c", "-", "c", "o", "m", "m", "e", "n", "t", ":", " " >> \o text
          [] style = "part" -> Border("#", text) \o nl \o text \o nl \o Border("#", text)
          [] style = "h1" -> Border("=", text) \o nl \o text \o nl \o Border("=", text)
          [] style = "h2" -> text \o nl \o Border("=", text)
          [] style = "h3" -> text \o nl \o Border("-", text)
          [] style = "list-item" -> << "*", " " >> \o text
          [] OTHER -> text

\* BlockElement.render
render(b) ==
    IF b.item = 0 THEN Rendered(<< >>, b.inlines, << >>, "")
    ELSE IF Style(b) = "code" THEN render_code(b)
    ELSE IF Style(b) = "figure" THEN render_figure(b)
    ELSE IF Style(b) = "glossary" THEN render_glossary(b)
    ELSE LET r == render_text(b)
         IN  [ r EXCEPT !.text = Decorated(Style(b), r.text) ]

-----------------------------------------------------------------------------
(* Font signatures (class Font and the match statement of visit_LTChar) *)

CODE      == "BCXPYQ+LetterGothicStd"
HEADING   == "HDWEEE+StoneSansStd-Medium"
HEADER    == "TAVVUB+StoneSansStd-Bold"
PARAGRAPH == "RAZMOK+BerkeleyStd-Medium"
STRONG    == "BCXPYQ+BerkeleyStd-Bold"
CODE_BOLD == "NQEGLY+LetterGothicStd-Bold"
EM        == "VGXSUC+BerkeleyStd-Italic"
FIGURE_C1 == "TFAXUR+HelveticaLTStd-BoldCond"
FIGURE_C2 == "TFAXUR+HelveticaLTStd-Cond"
FIGURE_C3 == "TFAXUR+HelveticaLTStd-BoldCondObl"
FIGURE_C4 == "IXTELN+TektonPro-Bold"
FIGURE_C5 == "BSQHZM+HelveticaLTStd-CondObl"
FIGURE_C6 == "HYERGJ+HelveticaLTStd-Roman"
TOC1      == "HDWEEE+StoneSansStd-Medium"
TOC2      == "TAVVUB+StoneSansStd-Semibold"
LIST_ITEM == "OXPSJB+ZapfDingbatsStd"

\* round(x, 1) of x hundredths, in tenths (ties to even)
Round1(x) ==
    LET q == x \div 10
        r == x % 10
    IN  IF r < 5 THEN q
        ELSE IF r > 5 THEN q + 1
        ELSE IF q % 2 = 0 THEN q ELSE q + 1

\* round(x) of x hundredths, in units (ties to even)
Round0(x) ==
    LET q == x \div 100
        r == x % 100
    IN  IF r < 50 THEN q
        ELSE IF r > 50 THEN q + 1
        ELSE IF q % 2 = 0 THEN q ELSE q + 1

\* the inline style the match statement of visit_LTChar selects for
\* (item.fontname, round(item.size, 1)), "" for the unknown case; size in hundredths
FontStyle(fontname, size) ==
    LET sz == Round1(size)
    IN  CASE fontname = CODE -> "code"
          [] fontname = HEADING /\ sz = 500 -> "normal"
          [] fontname = HEADING /\ sz = 400 -> "part"
          [] fontname = HEADING /\ sz \in { 300, 280 } -> "h1"
          [] fontname = HEADING /\ sz = 180 -> "h2"
          [] fontname = HEADING /\ sz = 150 -> "h3"
          [] fontname = HEADING /\ sz = 145 -> "lineblock"
          [] fontname = HEADING /\ sz = 90 -> "figure"
          [] fontname = HEADER -> "header"
          [] fontname = PARAGRAPH -> "normal"
          [] fontname \in { STRONG, CODE_BOLD } -> "strong"
          [] fontname = EM -> "em"
          [] fontname \in { FIGURE_C1, FIGURE_C2, FIGURE_C3,
                            FIGURE_C4, FIGURE_C5, FIGURE_C6 } -> "figure-comment"
          [] fontname \in { TOC1, TOC2 } /\ sz \in { 120, 100 } -> "toc"
          [] fontname = LIST_ITEM -> "list-item"
          [] OTHER -> ""

-----------------------------------------------------------------------------
(* ChapterElement: page accumulation *)

RECURSIVE InsertByY0_Unstable(_, _)
\* InsertByY0 that puts b before the blocks of equal y0
InsertByY0_Unstable(s, b) ==
    IF s = << >> THEN << b >>
    ELSE IF boxes[Head(s).item].y0 > boxes[b.item].y0
         THEN << Head(s) >> \o InsertByY0_Unstable(Tail(s), b)
         ELSE << b >> \o s

RECURSIVE InsertByY0(_, _)
\* b put into the list s, sorted by descending y0, behind every block whose
\* y0 is not smaller than its own
InsertByY0(s, b) ==
    IF s = << >> THEN << b >>
    ELSE IF boxes[Head(s).item].y0 >= boxes[b.item].y0
         THEN << Head(s) >> \o InsertByY0(Tail(s), b)
         ELSE << b >> \o s

RECURSIVE SortedByY0(_, _)
\* sorted(page_blocks, key=lambda b: b.item.y0, reverse=True): a stable sort, so
\* blocks of equal y0 keep the order they have in page_blocks
SortedByY0(s, done) ==
    IF s = << >> THEN done ELSE SortedByY0(Tail(s), InsertByY0(done, Head(s)))

\* ChapterElement.close_page: the new value of blocks (page_blocks becomes [])
close_page_blocks == blocks \o SortedByY0(page_blocks, << >>)

\* ChapterElement.new_block: the new value of page_blocks
new_block(box, page) ==
    LET kept == IF page_blocks # << >> /\ page_blocks[Len(page_blocks)].inlines = << >>
                THEN SubSeq(page_blocks, 1, Len(page_blocks) - 1)
                ELSE page_blocks
    IN  Append(kept, NewBlock(nblocks + 1, box, page))

LastBlock == page_blocks[Len(page_blocks)]

\* ChapterElement.get_block_style; page_blocks[-1] raises IndexError on an empty list
get_block_style == Style(LastBlock)

\* ChapterElement.set_inline_style: the new value of page_blocks
set_inline_style(style) ==
    [ page_blocks EXCEPT ![Len(page_blocks)] = BlockSetInlineStyle(@, style) ]

\* the no-break space character (U+00A0)
NBSP == "U+00A0"

\* Visitor.push_text and ChapterElement.push_text on the list pb
push_text(pb, text) ==
    [ pb EXCEPT ![Len(pb)] = BlockPushText(@, ReplaceAll(text, << NBSP >>, << " " >>)) ]

-----------------------------------------------------------------------------
(* Helpers of the actions *)

RECURSIVE Fragments(_)
\* number of text fragments pushed into the blocks of the list s
Fragments(s) ==
    IF s = << >> THEN 0
    ELSE LET inls == Head(s).inlines
             RECURSIVE Count(_)
             Count(k) == IF k = 0 THEN 0 ELSE Len(inls[k].text_stack) + Count(k - 1)
         IN  Count(Len(inls)) + Fragments(Tail(s))

Walking == pc = "walk"

\* an exception leaves the handler and ends the run
Raise(exc) == /\ raised' = exc
              /\ pc' = "aborted"

NoRaise == UNCHANGED raised

CloseVars == << conv, ridx, texts, outfp, segments, part_counter, chap_counter, written >>

-----------------------------------------------------------------------------
(* Visitor: one action per layout node the depth-first walk dispatches *)

\* Visitor.visit_LTPage (then visit_LTContainer over the page's children)
visit_LTPage ==
    /\ Walking
    /\ ctx # "box"
    /\ blocks' = close_page_blocks
    /\ page_blocks' = << >>
    /\ current_page' = current_page + 1
    /\ ctx' = "page"
    /\ UNCHANGED << pc, raised, current_box, current_line, boxes, lines, nblocks,
                    font_warning_cache, warnings, unmapped, exported >>
    /\ UNCHANGED CloseVars

\* Visitor.visit_LTTextBoxHorizontal for a box at height y0 whose first line starts at x0
visit_LTTextBoxHorizontal(y0, x0) ==
    /\ Walking
    /\ ctx \notin { "start", "box" }
    /\ boxes' = Append(boxes, [ y0 |-> y0, x0 |-> x0 ])
    /\ current_box' = Len(boxes) + 1
    /\ page_blocks' = new_block(Len(boxes) + 1, current_page)
    /\ nblocks' = nblocks + 1
    /\ ctx' = "box"
    /\ UNCHANGED << pc, raised, current_page, current_line, lines, blocks,
                    font_warning_cache, warnings, unmapped, exported >>
    /\ UNCHANGED CloseVars

\* the truth value of Visitor.current_line: not None, and a container with children
CurrentLineTruthy == current_line # 0 /\ lines[current_line].n > 0

\* Visitor.visit_LTTextLineHorizontal for a line starting at x0; the first line
\* of a box is the one get_firstline_x reads
visit_LTTextLineHorizontal(x0) ==
    /\ Walking
    /\ ctx # "start"
    /\ ctx = "box" => x0 = boxes[current_box].x0
    /\ ctx' = "line"
    /\ lines' = Append(lines, [ x0 |-> x0, n |-> 0 ])
    /\ IF CurrentLineTruthy /\ Round0(lines[current_line].x0) < Round0(x0)
       THEN /\ page_blocks' = new_block(current_box, current_page)
            /\ nblocks' = nblocks + 1
            /\ current_line' = Len(lines) + 1
            /\ UNCHANGED << pc, raised >>
       ELSE IF page_blocks = << >>
       THEN /\ Raise("IndexError")
            /\ UNCHANGED << page_blocks, nblocks, current_line >>
       ELSE IF get_block_style = "lineblock"
       THEN /\ page_blocks' = new_block(current_box, current_page)
            /\ nblocks' = nblocks + 1
            /\ current_line' = Len(lines) + 1
            /\ UNCHANGED << pc, raised >>
       ELSE /\ current_line' = Len(lines) + 1
            /\ UNCHANGED << pc, raised, page_blocks, nblocks >>
    /\ UNCHANGED << current_page, current_box, boxes, blocks, font_warning_cache,
                    warnings, unmapped, exported >>
    /\ UNCHANGED CloseVars

\* a child was read from the line the walk is in (LTContainer.__len__ counts it)
ChildOfLine ==
    IF ctx = "line" /\ Len(lines) > 0
    THEN lines' = [ lines EXCEPT ![Len(lines)].n = @ + 1 ]
    ELSE UNCHANGED lines

\* font_warning never finds a line in the cache
InCache_Never(line) == FALSE

\* font_warning: current_line in font_warning_cache
InCache(line) == line \in font_warning_cache

\* Visitor.visit_LTChar for a character of the given font, size and text
visit_LTChar(fontname, size, text) ==
    /\ Walking
    /\ ctx \in { "line", "figure" }
    /\ ChildOfLine
    /\ IF page_blocks = << >>
       THEN \* set_inline_style / get_block_style: page_blocks[-1]
            /\ Raise("IndexError")
            /\ UNCHANGED << page_blocks, font_warning_cache, warnings, unmapped >>
       ELSE IF FontStyle(fontname, size) # ""
       THEN /\ page_blocks' = push_text(set_inline_style(FontStyle(fontname, size)), text)
            /\ UNCHANGED << pc, raised, font_warning_cache, warnings, unmapped >>
       ELSE IF get_block_style = "header"
       THEN /\ page_blocks' = push_text(set_inline_style("normal"), text)
            /\ unmapped' = Append(unmapped, [ line |-> current_line, header |-> TRUE, text |-> text ])
            /\ UNCHANGED << pc, raised, font_warning_cache, warnings >>
       ELSE \* font_warning(fontname, fontsize, self.current_line)
            /\ unmapped' = Append(unmapped, [ line |-> current_line, header |-> FALSE, text |-> text ])
            /\ IF InCache(current_line)
               THEN /\ page_blocks' = push_text(set_inline_style("normal"), text)
                    /\ UNCHANGED << pc, raised, font_warning_cache, warnings >>
               ELSE /\ font_warning_cache' = font_warning_cache \cup { current_line }
                    /\ IF current_line = 0
                       THEN \* None.get_text()
                            /\ Raise("AttributeError")
                            /\ UNCHANGED << page_blocks, warnings >>
                       ELSE /\ warnings' = Append(warnings,
                                               << "Unsupported font", current_line >>)
                            /\ page_blocks' = push_text(set_inline_style("normal"), text)
                            /\ UNCHANGED << pc, raised >>
    /\ ctx' = ctx
    /\ UNCHANGED << current_page, current_box, current_line, boxes, blocks, nblocks,
                    exported >>
    /\ UNCHANGED CloseVars

\* Visitor.visit_LTAnno
visit_LTAnno(text) ==
    /\ Walking
    /\ ctx = "line"
    /\ ChildOfLine
    /\ IF page_blocks = << >>
       THEN /\ Raise("IndexError")
            /\ UNCHANGED page_blocks
       ELSE /\ page_blocks' = push_text(page_blocks, text)
            /\ UNCHANGED << pc, raised >>
    /\ UNCHANGED << ctx, current_page, current_box, current_line, boxes, blocks, nblocks,
                    font_warning_cache, warnings, unmapped, exported >>
    /\ UNCHANGED CloseVars

\* Visitor.visit_LTContainer entering an LTFigure, whose children are characters
\* and images outside any line
visit_LTFigure ==
    /\ Walking
    /\ ctx \in { "page", "line" }
    /\ ctx' = "figure"
    /\ UNCHANGED << pc, raised, current_page, current_box, current_line, boxes, lines,
                    page_blocks, blocks, nblocks, font_warning_cache, warnings,
                    unmapped, exported >>
    /\ UNCHANGED CloseVars

\* Visitor.visit_LTImage with an imagewriter: self.imagewriter.export_image(item);
\* without one the handler returns at once and nothing changes
visit_LTImage ==
    /\ Walking
    /\ ctx = "figure"
    /\ exported' = exported + 1
    /\ UNCHANGED << pc, raised, ctx, current_page, current_box, current_line, boxes,
                    lines, page_blocks, blocks, nblocks, font_warning_cache, warnings,
                    unmapped >>
    /\ UNCHANGED CloseVars

-----------------------------------------------------------------------------
(* ChapterElement: the merge passes *)

\* BlockElement.get_firstline_x: list(self.item)[0].x0
get_firstline_x(b) == boxes[b.item].x0

\* repr(b), which log.info('merge block: %r', b) evaluates when INFO records are
\* formatted: BlockElement.__repr__ calls render_text, and the block is left as
\* render_text leaves it
AfterRepr(b) == [ b EXCEPT !.inlines = render_text(b).inlines ]

\* Continues without the test of the previous block's style
Continues_AnyPrev(prev, b) ==
    /\ Style(b) = "paragraph"
    /\ prev.item # b.item
    /\ 479 <= Round1(boxes[b.item].x0)
    /\ Round1(boxes[b.item].x0) <= 480

\* the continuation test of merge_blocks on the last output block and the next block
Continues(prev, b) ==
    /\ Style(prev) = "paragraph"
    /\ Style(b) = "paragraph"
    /\ prev.item # b.item
    /\ 479 <= Round1(get_firstline_x(b))
    /\ Round1(get_firstline_x(b)) <= 480

RECURSIVE MergeBlocksLoop(_, _, _)
\* the loop of merge_blocks over the blocks in rest; out is the local list blocks,
\* info tells whether INFO log records are formatted
MergeBlocksLoop(rest, out, info) ==
    IF rest = << >> THEN out
    ELSE LET b    == Head(rest)
             prev == out[Len(out)]
         IN  IF is_header(b) THEN MergeBlocksLoop(Tail(rest), out, info)
             ELSE IF Style(b) = "code"
             THEN IF Style(prev) = "code"
                  THEN MergeBlocksLoop(Tail(rest),
                           [ out EXCEPT ![Len(out)] = BlockMerge(@, b) ], info)
                  ELSE MergeBlocksLoop(Tail(rest), Append(out, b), info)
             ELSE IF Continues(prev, b)
                  THEN MergeBlocksLoop(Tail(rest),
                           [ out EXCEPT ![Len(out)] =
                               BlockMerge(@, IF info THEN AfterRepr(b) ELSE b) ], info)
                  ELSE MergeBlocksLoop(Tail(rest), Append(out, b), info)

\* ChapterElement.merge_blocks on the list bs: the new value of self.blocks; id is
\* the identity of the BlockElement(self, None) the pass starts from
merge_blocks(bs, id, info) == MergeBlocksLoop(bs, << NewBlock(id, 0, 0) >>, info)

Vocabulary == << "V", "o", "c", "a", "b", "u", "l", "a", "r", "y" >>

Headings == { "part", "h1", "h2", "h3" }

\* BlockElement.style (setter): the block, and the warning it logs when an
\* explicit style is replaced by another one
SetStyle(b, style) == [ b EXCEPT !.style = style ]
SetStyleWarnings(b, style) ==
    IF b.style # "" /\ b.style # style
    THEN << << "Block style is changed", b.style, style >> >>
    ELSE << >>

\* b0.inlines[0].style = 'term'
SetTerm(b) == [ b EXCEPT !.inlines[1].style = "term" ]

\* one round of the loop of merge_glossaries, for the block b0; st.out is the local
\* list blocks, st.warns the warnings logged, st.exc the exception raised
GlossaryRound(b0, st) ==
    LET n == Len(st.out)
    IN  IF n = 0 THEN [ st EXCEPT !.out = << b0 >> ]
        ELSE LET b1  == st.out[n]
                 isH2 == Style(b1) = "h2"
                 r   == render_text(b1)
                 \* b1 as the test b1.render_text() == 'Vocabulary' leaves it
                 out1 == IF isH2 THEN [ st.out EXCEPT ![n].inlines = r.inlines ]
                         ELSE st.out
                 w1  == IF isH2 THEN st.warns \o r.warns ELSE st.warns
             IN  IF isH2 /\ r.text = Vocabulary
                 THEN IF b0.inlines = << >>
                      THEN [ out |-> out1, exc |-> "IndexError",
                             warns |-> w1 \o SetStyleWarnings(b0, "glossary") ]
                      ELSE [ out |-> Append(out1, SetTerm(SetStyle(b0, "glossary"))),
                             exc |-> "",
                             warns |-> w1 \o SetStyleWarnings(b0, "glossary") ]
                 ELSE IF Style(b0) \in Headings
                 THEN [ out |-> Append(out1, b0), exc |-> "", warns |-> w1 ]
                 ELSE IF Style(b1) = "glossary"
                 THEN IF b0.inlines = << >>
                      THEN [ out |-> out1, exc |-> "IndexError", warns |-> w1 ]
                      ELSE [ out |-> [ out1 EXCEPT ![n] = BlockMerge(@, SetTerm(b0)) ],
                             exc |-> "", warns |-> w1 ]
                 ELSE [ out |-> Append(out1, b0), exc |-> "", warns |-> w1 ]

RECURSIVE MergeGlossariesLoop(_, _)
\* the loop of merge_glossaries over the blocks in rest, ended by an exception
MergeGlossariesLoop(rest, st) ==
    IF rest = << >> \/ st.exc # "" THEN st
    ELSE CHOOSE end \in { MergeGlossariesLoop(Tail(rest), next) :
                             next \in { GlossaryRound(Head(rest), st) } } : TRUE

\* ChapterElement.merge_glossaries on the list bs
merge_glossaries(bs) ==
    MergeGlossariesLoop(bs, [ out |-> << >>, exc |-> "", warns |-> << >> ])

-----------------------------------------------------------------------------
(* The converters: close *)

WalkVars == << ctx, current_page, current_box, current_line, boxes, lines,
               font_warning_cache, unmapped, exported >>

\* RstConverter.close, first part: Visitor.get_text calls chap.close_page()
\* and enters chap.render()
RstClose ==
    /\ Walking
    /\ ctx # "box"
    /\ blocks' = close_page_blocks
    /\ page_blocks' = << >>
    /\ conv' = "rst"
    /\ pc' = "merge_blocks"
    /\ UNCHANGED << raised, nblocks, warnings, ridx, texts, outfp, segments,
                    part_counter, chap_counter, written >>
    /\ UNCHANGED WalkVars

\* SplitRstConverter.close, first part: chap.close_page()
SplitClose ==
    /\ Walking
    /\ ctx # "box"
    /\ blocks' = close_page_blocks
    /\ page_blocks' = << >>
    /\ conv' = "split"
    /\ pc' = "merge_blocks"
    /\ UNCHANGED << raised, nblocks, warnings, ridx, texts, outfp, segments,
                    part_counter, chap_counter, written >>
    /\ UNCHANGED WalkVars

\* chap.merge_blocks(); info: the logging configuration formats INFO records
MergeBlocksStep(info) ==
    /\ pc = "merge_blocks"
    /\ blocks' = merge_blocks(blocks, nblocks + 1, info)
    /\ nblocks' = nblocks + 1
    /\ pc' = "merge_glossaries"
    /\ UNCHANGED << conv, raised, page_blocks, warnings, ridx, texts, outfp, segments,
                    part_counter, chap_counter, written >>
    /\ UNCHANGED WalkVars

\* chap.merge_glossaries()
MergeGlossariesStep ==
    /\ pc = "merge_glossaries"
    /\ \E g \in { merge_glossaries(blocks) } :
           /\ warnings' = warnings \o g.warns
           /\ IF g.exc # ""
              THEN /\ Raise(g.exc)
                   /\ UNCHANGED << blocks, ridx >>
              ELSE /\ blocks' = g.out
                   /\ ridx' = 1
                   /\ pc' = "render"
                   /\ NoRaise
    /\ UNCHANGED << conv, page_blocks, nblocks, texts, outfp, segments,
                    part_counter, chap_counter, written >>
    /\ UNCHANGED WalkVars

NL2 == << "\n", "\n" >>

\* ChapterElement.render, one round of the loop: texts.extend([b.render(), '\n\n'])
RenderStep ==
    /\ pc = "render"
    /\ conv = "rst"
    /\ ridx <= Len(blocks)
    /\ \E r \in { render(blocks[ridx]) } :
           /\ blocks' = [ blocks EXCEPT ![ridx].inlines = r.inlines ]
           /\ warnings' = warnings \o r.warns
           /\ IF r.exc # ""
              THEN /\ Raise(r.exc)
                   /\ UNCHANGED << texts, ridx >>
              ELSE /\ texts' = texts \o << r.text, NL2 >>
                   /\ ridx' = ridx + 1
                   /\ UNCHANGED << pc, raised >>
    /\ UNCHANGED << conv, page_blocks, nblocks, outfp, segments,
                    part_counter, chap_counter, written >>
    /\ UNCHANGED WalkVars

\* RstConverter.close, last part: self.write_text(''.join(texts))
WriteText ==
    /\ pc = "render"
    /\ conv = "rst"
    /\ ridx > Len(blocks)
    /\ written' = Append(written, [ seg |-> outfp, block |-> 0, text |-> Join(texts) ])
    /\ pc' = "done"
    /\ UNCHANGED << conv, raised, page_blocks, blocks, nblocks, warnings, ridx, texts,
                    outfp, segments, part_counter, chap_counter >>
    /\ UNCHANGED WalkVars

\* the file name characters SplitRstConverter.close removes or replaces
Slug(t) ==
    ReplaceAll(ReplaceAll(ReplaceAll(t, << "?" >>, << >>), << ":" >>, << >>),
               << " " >>, << "-" >>)

\* a chapter file opened for every h1 block
OpensChap_Always(st, parts) == st = "h1"

\* SplitRstConverter.close: case 'h1' if part_counter != 1
OpensChap(st, parts) == st = "h1" /\ parts # 1

\* SplitRstConverter.close, one round of the loop over chap.blocks
SplitStep ==
    /\ pc = "render"
    /\ conv = "split"
    /\ ridx <= Len(blocks)
    /\ LET b      == blocks[ridx]
           isPart == Style(b) = "part"
           isChap == OpensChap(Style(b), part_counter)
           seg    == IF isPart \/ isChap THEN Len(segments) + 1 ELSE outfp
       IN  \* t: b.render_text() (h1 case only); r: b.render() on the block as
           \* that call leaves it
           \E t \in { render_text(b) } :
           \E r \in { render(IF isChap THEN [ b EXCEPT !.inlines = t.inlines ] ELSE b) } :
           /\ part_counter' = IF isPart THEN part_counter + 1 ELSE part_counter
           /\ chap_counter' = IF isChap THEN chap_counter + 1 ELSE chap_counter
           /\ segments' = IF isPart THEN Append(segments, << "Part", part_counter >>)
                          ELSE IF isChap
                          THEN Append(segments, << "Chap", chap_counter + 1, Slug(t.text) >>)
                          ELSE segments
           /\ outfp' = seg
           /\ blocks' = [ blocks EXCEPT ![ridx].inlines = r.inlines ]
           /\ warnings' = warnings \o (IF isChap THEN t.warns ELSE << >>) \o r.warns
           /\ IF r.exc # ""
              THEN /\ Raise(r.exc)
                   /\ UNCHANGED << written, ridx >>
              ELSE /\ written' = written \o
                          << [ seg |-> seg, block |-> b.id, text |-> r.text ],
                             [ seg |-> seg, block |-> b.id, text |-> NL2 ] >>
                   /\ ridx' = ridx + 1
                   /\ pc' = IF ridx = Len(blocks) THEN "done" ELSE "render"
                   /\ NoRaise
    /\ UNCHANGED << conv, page_blocks, nblocks, texts >>
    /\ UNCHANGED WalkVars

-----------------------------------------------------------------------------
(* Specification *)

\* a character of the layout tree: LTChar.fontname, LTChar.size, LTChar.get_text()
Glyph(fontname, size, text) == [ fontname |-> fontname, size |-> size, text |-> text ]

Init ==
    /\ pc = "walk"
    /\ conv = ""
    /\ ctx = "start"
    /\ raised = ""
    /\ current_page = 0
    /\ current_box = 0
    /\ current_line = 0
    /\ boxes = << >>
    /\ lines = << >>
    /\ page_blocks = << >>
    /\ blocks = << >>
    /\ nblocks = 0
    /\ font_warning_cache = { }
    /\ warnings = << >>
    /\ unmapped = << >>
    /\ ridx = 0
    /\ texts = << >>
    /\ outfp = 0
    /\ segments = << >>
    /\ part_counter = 0
    /\ chap_counter = 0
    /\ written = << >>
    /\ exported = 0

\* number of text fragments the walk has pushed so far
Pushed == Fragments(blocks) + Fragments(page_blocks)

\* a font no rule of visit_LTChar names
UNKNOWN == "ABCDEF+Unknown"

\* the layout trees walked are those pdfminer builds: a text box holds at least one
\* line (the guard of visit_LTPage etc. on ctx = "box") and a line at least one
\* character or annotation
LineHasText == ctx = "line" => lines[Len(lines)].n > 0

-----------------------------------------------------------------------------
(* Spec: the walk over layout trees of pages, text boxes, lines, characters, *)
(* annotations, figures and images, up to the close_page of close.          *)

MaxPages == 2
MaxTexts == 2
MaxImages == 1

Y0s == { 60000, 62000 }
X0s == { 4800, 5000 }
Glyphs == { Glyph(PARAGRAPH, 1000, << "a" >>),
            Glyph(HEADING, 1450, << "v" >>),
            Glyph(UNKNOWN, 1000, << "u" >>) }
Annos == { << "\n" >> }

Next ==
    \/ current_page < MaxPages /\ LineHasText /\ visit_LTPage
    \/ Pushed < MaxTexts /\ LineHasText
         /\ \E y0 \in Y0s, x0 \in X0s : visit_LTTextBoxHorizontal(y0, x0)
    \/ Pushed < MaxTexts /\ LineHasText
         /\ \E x0 \in X0s : visit_LTTextLineHorizontal(x0)
    \/ Pushed < MaxTexts /\ \E g \in Glyphs : visit_LTChar(g.fontname, g.size, g.text)
    \/ Pushed < MaxTexts /\ \E t \in Annos : visit_LTAnno(t)
    \/ LineHasText /\ visit_LTFigure
    \/ exported < MaxImages /\ visit_LTImage
    \/ LineHasText /\ RstClose
    \/ LineHasText /\ SplitClose

Spec == Init /\ [][Next]_vars

-----------------------------------------------------------------------------
(* SpecDoc: the conversion of documents of text boxes, from the walk to the  *)
(* written output, by either converter.                                     *)

DocPages == 1
DocTexts == 3

DocY0s == { 60000, 62000 }
DocX0s == { 4800, 5000 }
DocGlyphs == { Glyph(PARAGRAPH, 1000, << "a" >>),
               Glyph(STRONG, 1000, << " " >>),
               Glyph(CODE, 900, << "c" >>),
               Glyph(HEADING, 1800, Vocabulary),
               Glyph(HEADING, 3000, << "T" >>),
               Glyph(HEADING, 4000, << "P" >>) }

NextDoc ==
    \/ current_page < DocPages /\ LineHasText /\ visit_LTPage
    \/ Pushed < DocTexts /\ LineHasText
         /\ \E y0 \in DocY0s, x0 \in DocX0s : visit_LTTextBoxHorizontal(y0, x0)
    \/ Pushed < DocTexts /\ LineHasText
         /\ \E x0 \in DocX0s : visit_LTTextLineHorizontal(x0)
    \/ Pushed < DocTexts /\ \E g \in DocGlyphs : visit_LTChar(g.fontname, g.size, g.text)
    \/ LineHasText /\ RstClose
    \/ LineHasText /\ SplitClose
    \/ \E info \in BOOLEAN : MergeBlocksStep(info)
    \/ MergeGlossariesStep
    \/ RenderStep
    \/ WriteText
    \/ SplitStep

SpecDoc == Init /\ [][NextDoc]_vars

-----------------------------------------------------------------------------
(* SpecSplit: the conversion, by SplitRstConverter, of documents of body    *)
(* text, code and chapter and part headings.                                *)

SplitPages == 1
SplitTexts == 2

SplitGlyphs == { Glyph(PARAGRAPH, 1000, << "a" >>),
                 Glyph(CODE, 900, << "c" >>),
                 Glyph(HEADING, 3000, << "T" >>),
                 Glyph(HEADING, 4000, << "P" >>) }

NextSplit ==
    \/ current_page < SplitPages /\ LineHasText /\ visit_LTPage
    \/ Pushed < SplitTexts /\ LineHasText
         /\ \E y0 \in DocY0s, x0 \in DocX0s : visit_LTTextBoxHorizontal(y0, x0)
    \/ Pushed < SplitTexts /\ LineHasText
         /\ \E x0 \in DocX0s : visit_LTTextLineHorizontal(x0)
    \/ Pushed < SplitTexts /\ \E g \in SplitGlyphs : visit_LTChar(g.fontname, g.size, g.text)
    \/ LineHasText /\ SplitClose
    \/ \E info \in BOOLEAN : MergeBlocksStep(info)
    \/ MergeGlossariesStep
    \/ SplitStep

SpecSplit == Init /\ [][NextSplit]_vars

-----------------------------------------------------------------------------
(* Properties *)

-----------------------------------------------------------------------------
(* One BlockElement used through its own methods: constructed over a text box with
   or without an explicit style, filled by set_inline_style and push_text,
   restyled by the style setter and rendered. *)

BlockRuns    == 2
BlockTexts   == 2
BlockRenders == 1
BlockWarnings == 1

BlockY0s    == { 60000, 70000 }
BlockStyles == { "code", "h2", "figure-comment", "glossary" }
RunStyles   == { "code", "term", "h2" }
BlockFragments == { << "a" >>, << ":" >> }

\* BlockElement(parent, item, _style) over a box at height y0, style "" for None
InitBlock ==
    /\ pc = "block"
    /\ conv = ""
    /\ ctx = "start"
    /\ raised = ""
    /\ current_page = 1
    /\ current_box = 0
    /\ current_line = 0
    /\ \E y0 \in BlockY0s : boxes = << [ y0 |-> y0, x0 |-> 4800 ] >>
    /\ lines = << >>
    /\ page_blocks = << >>
    /\ \E style \in BlockStyles \cup { "" } :
          blocks = << [ NewBlock(1, 1, 1) EXCEPT !.style = style ] >>
    /\ nblocks = 1
    /\ font_warning_cache = { }
    /\ warnings = << >>
    /\ unmapped = << >>
    /\ ridx = 0
    /\ texts = << >>
    /\ outfp = 0
    /\ segments = << >>
    /\ part_counter = 0
    /\ chap_counter = 0
    /\ written = << >>
    /\ exported = 0

BlockFrame ==
    UNCHANGED << conv, ctx, current_page, current_box, current_line, boxes, lines,
                 page_blocks, nblocks, font_warning_cache, unmapped, ridx, outfp,
                 segments, part_counter, chap_counter, written, exported >>

\* a call of BlockElement.set_inline_style(style)
CallSetInlineStyle(style) ==
    /\ pc = "block"
    /\ blocks' = << BlockSetInlineStyle(blocks[1], style) >>
    /\ UNCHANGED << pc, raised, warnings, texts >>
    /\ BlockFrame

\* a call of BlockElement.push_text(text)
CallPushText(text) ==
    /\ pc = "block"
    /\ blocks' = << BlockPushText(blocks[1], text) >>
    /\ UNCHANGED << pc, raised, warnings, texts >>
    /\ BlockFrame

\* an assignment block.style = style
CallSetStyle(style) ==
    /\ pc = "block"
    /\ blocks' = << SetStyle(blocks[1], style) >>
    /\ warnings' = warnings \o SetStyleWarnings(blocks[1], style)
    /\ UNCHANGED << pc, raised, texts >>
    /\ BlockFrame

\* a call of BlockElement.render(); texts collects what the calls returned
CallRender ==
    /\ pc = "block"
    /\ \E r \in { render(blocks[1]) } :
           /\ blocks' = << [ blocks[1] EXCEPT !.inlines = r.inlines ] >>
           /\ warnings' = warnings \o r.warns
           /\ IF r.exc # ""
              THEN Raise(r.exc) /\ UNCHANGED texts
              ELSE texts' = Append(texts, r.text) /\ UNCHANGED << pc, raised >>
    /\ BlockFrame

NextBlock ==
    \/ \E style \in RunStyles :
          Len(blocks[1].inlines) < BlockRuns /\ CallSetInlineStyle(style)
    \/ \E text \in BlockFragments :
          Fragments(blocks) < BlockTexts /\ CallPushText(text)
    \/ \E style \in BlockStyles :
          Len(warnings) < BlockWarnings /\ CallSetStyle(style)
    \/ Len(texts) < BlockRenders /\ CallRender

SpecBlock == InitBlock /\ [][NextBlock]_vars


\* the block of the list bs whose identity is id
HasId(bs, id) == \E k \in 1..Len(bs) : bs[k].id = id
BlockById(bs, id) == bs[CHOOSE k \in 1..Len(bs) : bs[k].id = id]

\* the step that runs merge_blocks, merge_glossaries
MergeBlocksRuns == pc = "merge_blocks" /\ pc' = "merge_glossaries"
MergeGlossariesRuns == pc = "merge_glossaries" /\ pc' = "render"

\* C1: rendering is pure: a step of the close loop, which calls render() (and
\* render_text() for a chapter heading), leaves every block's inline runs and their
\* text fragments as they were.
C1_RenderingIsPure == [][pc = "render" => blocks' = blocks]_vars

\* same source box, style and ordered inline runs
SameBlock(a, b) == a.item = b.item /\ Style(a) = Style(b) /\ a.inlines = b.inlines
SameBlocks(s, t) ==
    /\ Len(s) = Len(t)
    /\ \A k \in 1..Len(s) : SameBlock(s[k], t[k])

\* C2: merge_blocks is idempotent: once merge_blocks has run, running it again on
\* its result gives the same block sequence: as many blocks, each with the same
\* source box, style and inline runs.
C2_MergeBlocksIdempotent ==
    pc = "merge_glossaries" =>
        \A info \in BOOLEAN :
            \A again \in { merge_blocks(blocks, nblocks + 1, info) } :
                SameBlocks(again, blocks)

\* merge_blocks has run and it joined two blocks read from text boxes into one
C2_Witness ==
    /\ pc = "merge_glossaries"
    /\ \E k \in 1..Len(blocks) : blocks[k].item # 0 /\ Len(blocks[k].src) >= 2

\* the pairs of adjacent blocks C3 lets merge_blocks join
JoinAllowed(a, b) ==
    \/ Style(a) = "code" /\ Style(b) = "code"
    \/ /\ Style(a) = "paragraph"
       /\ Style(b) = "paragraph"
       /\ a.item # b.item
       /\ Round1(get_firstline_x(b)) \in 479..480

\* C3: merge_blocks puts two blocks that are adjacent once the page headers are
\* removed into one output block only if both are code-style, or both are
\* paragraph-style, come from different source boxes and the later one's first
\* line x-offset rounds into [47.9, 48.0]; so two adjacent paragraph blocks of one
\* source box are never joined.
C3_JoinsOnlyAllowedPairs ==
    [][MergeBlocksRuns =>
         \A k \in 1..Len(blocks') :
            \A j \in 1..(Len(blocks'[k].src) - 1) :
               LET u == blocks'[k].src[j]
                   v == blocks'[k].src[j + 1]
               IN  HasId(blocks, u) =>
                       JoinAllowed(BlockById(blocks, u), BlockById(blocks, v))]_vars

\* C4: no block without inline runs is in the block sequence that the close loop
\* renders, and nothing is written for such a block.
C4_NoEmptyBlockEmitted ==
    pc \in { "render", "done" } =>
        /\ \A k \in 1..Len(blocks) : blocks[k].inlines # << >>
        /\ \A w \in 1..Len(written) :
              HasId(blocks, written[w].block) =>
                  BlockById(blocks, written[w].block).inlines # << >>


\* the 'Unsupported font' warnings logged for line l
FontWarnings(l) ==
    Cardinality({ k \in 1..Len(warnings) : warnings[k] = << "Unsupported font", l >> })

\* a character of unmapped font was read on line l in a block that was (hdr) or
\* was not (~hdr) header-style
UnmappedOn(l, hdr) ==
    \E k \in 1..Len(unmapped) : unmapped[k].line = l /\ unmapped[k].header = hdr

\* visit_LTChar has read a character of unmapped font and returned
UnmappedCharRead == Len(unmapped') = Len(unmapped) + 1 /\ raised' = ""

\* C5: a line on which characters of unmapped font were read in a block that is not
\* header-style has exactly one 'Unsupported font' warning, however many such
\* characters it holds, and no other line has one; reading such a character in a
\* header-style block logs nothing; in both cases the character's text is appended
\* to a run of style normal.
C5_OneWarningPerLine ==
    /\ [](\A l \in 1..Len(lines) :
             FontWarnings(l) = IF UnmappedOn(l, FALSE) THEN 1 ELSE 0)
    /\ [][UnmappedCharRead =>
             LET c   == unmapped'[Len(unmapped')]
                 b   == page_blocks'[Len(page_blocks')]
                 run == b.inlines[Len(b.inlines)]
             IN  /\ run.style = "normal"
                 /\ run.text_stack[Len(run.text_stack)] = c.text
                 /\ c.header => warnings' = warnings]_vars

\* two characters of unmapped font were read on one line, outside a page header
C5_Witness ==
    \E j, k \in 1..Len(unmapped) :
        /\ j < k
        /\ unmapped[j].line = unmapped[k].line
        /\ ~unmapped[j].header
        /\ ~unmapped[k].header

\* C7: no handler of the walk raises: whatever nodes the layout tree yields, the
\* walk is never ended by an exception.
C7_WalkNeverRaises == raised = ""

\* a comes before b in reading order: an earlier page, or the same page and a higher
\* source box, or the same height and created earlier
ReadsBefore(a, b) ==
    \/ a.page < b.page
    \/ /\ a.page = b.page
       /\ \/ boxes[a.item].y0 > boxes[b.item].y0
          \/ boxes[a.item].y0 = boxes[b.item].y0 /\ a.id < b.id

\* the step runs close_page: visit_LTPage, or the close of a converter
ClosePageRuns == current_page' # current_page \/ (pc = "walk" /\ pc' = "merge_blocks")

\* C10: page close and reading order.  While the tree is walked and when it has been
\* closed, the finalized blocks are in reading order (by page, then by descending
\* y0 of the source box, then in the order of the walk), and during the walk they are
\* blocks of closed pages while the working blocks are of the current page.  A
\* close_page empties the working list and appends its blocks behind the blocks
\* finalized before, which stay as they were.
C10_PageCloseReadingOrder ==
    /\ [](pc \in { "walk", "merge_blocks" } =>
            /\ \A i, j \in 1..Len(blocks) : i < j => ReadsBefore(blocks[i], blocks[j])
            /\ pc = "walk" =>
                  /\ \A i \in 1..Len(blocks) : blocks[i].page < current_page
                  /\ \A i \in 1..Len(page_blocks) : page_blocks[i].page = current_page)
    /\ [][/\ pc = "walk" => SubSeq(blocks', 1, Len(blocks)) = blocks
          /\ ClosePageRuns =>
                /\ page_blocks' = << >>
                /\ Len(blocks') = Len(blocks) + Len(page_blocks)
                /\ \A k \in 1..Len(page_blocks) :
                      \E j \in (Len(blocks) + 1)..Len(blocks') :
                          blocks'[j] = page_blocks[k]]_vars

\* a page was closed whose blocks the sort reordered
C10_Witness ==
    /\ page_blocks = << >>
    /\ \E i, j \in 1..Len(blocks) :
          /\ i < j
          /\ blocks[i].page = blocks[j].page
          /\ blocks[i].id > blocks[j].id


\* the step is one round of the loop of SplitRstConverter.close that wrote its block
SplitWrites == pc = "render" /\ conv = "split" /\ ridx' = ridx + 1

\* the segment the round wrote its block and the blank line after it to
WrittenTo(seg) ==
    /\ Len(written') = Len(written) + 2
    /\ \A k \in (Len(written) + 1)..Len(written') :
          written'[k].seg = seg /\ written'[k].block = blocks[ridx].id

\* the Part files opened so far
PartsOpened == Cardinality({ k \in 1..Len(segments) : segments[k][1] = "Part" })

C9_GlossaryStopsAtHeading ==
    [][MergeGlossariesRuns /\ raised' = "" =>
          \A k \in 1..Len(blocks) :
              Style(blocks[k]) \in Headings =>
                  \E j \in 1..Len(blocks') :
                      /\ blocks'[j].id = blocks[k].id
                      /\ Style(blocks'[j]) = Style(blocks[k])
                      /\ InlineStyles(blocks'[j]) = InlineStyles(blocks[k])]_vars


\* C8: page-header suppression: whenever a block whose source box lies above the
\* header threshold is rendered, the text returned is empty, whatever the style of
\* the block, inferred from its runs or assigned.
C8_HeaderRendersEmpty ==
    (pc = "block" /\ boxes[blocks[1].item].y0 > HeaderY0) =>
        \A k \in 1..Len(texts) : texts[k] = << >>


\* the identities of the blocks merged into the blocks of bs, in order
Sources(bs) == Join([ k \in 1..Len(bs) |-> bs[k].src ])

\* the styles of the inline runs of the blocks of bs, in order
RunStylesOf(bs) ==
    Join([ k \in 1..Len(bs) |->
             [ j \in 1..Len(bs[k].inlines) |-> bs[k].inlines[j].style ] ])

\* C11: merge_blocks loses no content that is not a page header: the blocks it is
\* given that are not page headers, and their inline runs, are found after it, in
\* the same order, in output blocks that have a source box, which are the blocks
\* BlockElement.render does not discard as box-less.
C11_MergeKeepsContent ==
    [][MergeBlocksRuns =>
          \A kept \in { SelectSeq(blocks, LAMBDA b : ~is_header(b)) } :
          \A boxed \in { SelectSeq(blocks', LAMBDA b : b.item # 0) } :
              /\ Sources(boxed) = Sources(kept)
              /\ RunStylesOf(boxed) = RunStylesOf(kept)]_vars

====
